---- MODULE Spec2Model ----
(***************************************************************************)
(* Ghost-leg ladder generator and tracer of src/lib/services/ladder.ts.    *)
(*                                                                         *)
(* Every exported function is one action.  Math.random() is the only       *)
(* input besides the arguments: each action draws the outcomes of its      *)
(* random calls from the sets defined below and then computes what the     *)
(* code computes.  Arrays are sequences; the code's indices and the values *)
(* stored in permutations stay 0-based, At(s, k) reads s[k].               *)
(*                                                                         *)
(* Spec is the program called function by function.  ReduceSpec steps      *)
(* through the reduction loops of permutationToRungs one loop test and one *)
(* iteration at a time, FairReduceSpec adds that the thread keeps running. *)
(*                                                                         *)
(* Waypoint coordinates are kept in half units (twice the JavaScript       *)
(* value), so that cellWidth / 2 and cellHeight / 2 are exact for odd      *)
(* cell sizes: a waypoint {x: 80.5, y: 40} is [x |-> 161, y |-> 80].       *)
(***************************************************************************)
EXTENDS Integers, Sequences, FiniteSets, TLC

\* ------------------------------------------------------------------ bounds
\* generateLadder is called with playerCount in 0..MaxColumns.
MaxColumns == 5
\* generateDerangement is called on its own with n in 0..MaxN.
MaxN == 8
\* generateRandomPermutation is called with n in 0..MaxPermN.
MaxPermN == 4
\* isValidDerangement is called with arrays of at most MaxArrayLen entries, each
\* in 0..MaxArrayLen - 1.
MaxArrayLen == 4
\* hasNoAdjacentRungs is called with grids of at most MaxGridRows rows of at most
\* MaxGridSlots slots.
MaxGridRows == 2
MaxGridSlots == 3
\* traceLadderPath is called on layouts of the caller's own of at most
\* MaxGivenRows rows of at most MaxGivenSlots slots.
MaxGivenRows == 2
MaxGivenSlots == 2
\* The reduction loops of permutationToRungs are stepped through for every
\* correction permutation of 2..MaxReduceN elements.
MaxReduceN == 6
\* Math.random() is unconstrained in FreeRowsFor(playerCount) row fills of one
\* generateLadder call: the leading chaos (or plain) rows first, what is left
\* over for the leading filler pairs.  Every later draw of the call returns a
\* low value (no rung placed, slot 0 picked).  Wider boards get fewer free
\* rows, which keeps the number of layouts per playerCount comparable.
FreeRowsFor(playerCount) == MaxColumns + 1 - playerCount

\* ------------------------------------------------------- program constants
MinRows == 12
XOffset == 50

\* ----------------------------------------------------------------- helpers
Max(a, b) == IF a >= b THEN a ELSE b

At(s, k) == s[k + 1]

\* Array.from({ length: n }, (_, i) => i)
Identity(n) == [k \in 1..Max(n, 0) |-> k - 1]

\* Faulty variant: only arr[a] is assigned.
SwapAtOverwrite(s, a, b) == [k \in 1..Len(s) |-> IF k = a + 1 THEN At(s, b) ELSE s[k]]

\* [arr[a], arr[b]] = [arr[b], arr[a]]
SwapAt(s, a, b) ==
  [k \in 1..Len(s) |-> IF k = a + 1 THEN At(s, b) ELSE IF k = b + 1 THEN At(s, a) ELSE s[k]]

\* rowRungs[k] read as a condition: a slot outside the array is undefined, falsy.
HasRung(rowRungs, k) == k >= 0 /\ k < Len(rowRungs) /\ rowRungs[k + 1]

\* rungs[row][col] = true; writing one past the end of a row extends it.
SetRung(rungs, row, col) ==
  [rungs EXCEPT ![row + 1] =
     [k \in 1..Max(Len(@), col + 1) |-> IF k = col + 1 THEN TRUE ELSE HasRung(@, k - 1)]]

\* Math.floor(Math.random() * k)
RandomIndex(k) == IF k <= 0 THEN {0} ELSE 0..(k - 1)

\* --------------------------------------------------- permutation utilities
\* The permutations of the set S, as arrays.
RECURSIVE PermutationsOf(_)
PermutationsOf(S) ==
  IF S = {} THEN {<<>>}
  ELSE UNION {{<<v>> \o rest : rest \in PermutationsOf(S \ {v})} : v \in S}

\* Faulty variant: the partner may be i itself, as in generateRandomPermutation.
DerangementPartnersInclusive(i) == RandomIndex(i + 1)

\* Faulty variant: Math.ceil for Math.floor.
DerangementPartnersCeil(i) == IF i <= 0 THEN {0} ELSE 1..i

\* The swap partners generateDerangement can draw for index i.

DerangementPartners(i) == RandomIndex(i)

\* All sequences of partners drawn by the loop "for (i = top; i > 0; i--)".
RECURSIVE DerangementChoices(_)
DerangementChoices(top) ==
  IF top <= 0 THEN {<<>>}
  ELSE {<<j>> \o rest : j \in DerangementPartners(top), rest \in DerangementChoices(top - 1)}

RECURSIVE Shuffle(_, _, _)
Shuffle(arr, i, js) ==
  IF i <= 0 THEN arr ELSE Shuffle(SwapAt(arr, i, Head(js)), i - 1, Tail(js))

\* Faulty variant: the loop starts at i = n - 2.
generateDerangementShort(n, js) == Shuffle(Identity(n), n - 2, js)

\* generateDerangement(n) when Math.random() yields the partners js.
generateDerangement(n, js) == Shuffle(Identity(n), n - 1, js)

\* Faulty variant: the partner excludes i itself, as in generateDerangement.
PermutationPartnersExclusive(i) == RandomIndex(i)

\* The swap partners generateRandomPermutation can draw for index i.
PermutationPartners(i) == RandomIndex(i + 1)

\* All sequences of partners drawn by the loop "for (i = top; i > 0; i--)".
RECURSIVE PermutationChoices(_)
PermutationChoices(top) ==
  IF top <= 0 THEN {<<>>}
  ELSE {<<j>> \o rest : j \in PermutationPartners(top), rest \in PermutationChoices(top - 1)}

\* generateRandomPermutation(n) when Math.random() yields the partners js.
generateRandomPermutation(n, js) == Shuffle(Identity(n), n - 1, js)

\* -------------------------------------------------------- layout generator
\* Faulty variant: the plain policy in both modes.
RowCountPlainOnly(playerCount, excludeSelf) == Max(MinRows, playerCount * 4)

\* rowCount of generateLadder.
RowCountFor(playerCount, excludeSelf) ==
  IF excludeSelf THEN Max(MinRows, playerCount * playerCount)
  ELSE Max(MinRows, playerCount * 4)

\* Faulty variant: the slot to the left is not looked at.
NoPrevRung(rowRungs, col) == FALSE

\* prevHasRung = col > 0 && row[col - 1]
PrevHasRung(rowRungs, col) == col > 0 /\ HasRung(rowRungs, col - 1)

\* Math.random() > 0.4
RungDraws(free) == IF free THEN {TRUE, FALSE} ELSE {FALSE}

\* The rows the left-to-right slot loop can produce, continuing from rowRungs.
RECURSIVE FillRow(_, _, _)
FillRow(rowRungs, slots, free) ==
  IF Len(rowRungs) >= slots THEN {rowRungs}
  ELSE UNION { FillRow(Append(rowRungs, (~PrevHasRung(rowRungs, Len(rowRungs))) /\ d),
                       slots, free) : d \in RungDraws(free) }

\* The grids the random row loop can produce: rows row .. count - 1.
RECURSIVE RandomRows(_, _, _, _)
RandomRows(row, count, slots, free) ==
  IF row >= count THEN {<<>>}
  ELSE {<<r>> \o rest : r \in FillRow(<<>>, slots, row < free),
                        rest \in RandomRows(row + 1, count, slots, free)}

\* Leading rows of a random grid that used an unconstrained draw.
FreeUsed(grid) ==
  LET busy == {k \in 1..Len(grid) : \E c \in 1..Len(grid[k]) : grid[k][c]}
  IN  IF busy = {} THEN 0 ELSE CHOOSE k \in busy : \A m \in busy : m <= k

\* Faulty variant: the reserve is maxCorrectionSwaps - 2.
ChaosRowsShortReserve(n, rowCount) ==
  Max(rowCount \div 2, rowCount - ((n * (n - 1)) \div 2 - 2))

\* chaosRows = Math.max(Math.floor(rowCount * 0.5), rowCount - correctionReserve)
ChaosRowsFor(n, rowCount) ==
  LET maxCorrectionSwaps == (n * (n - 1)) \div 2
      correctionReserve == maxCorrectionSwaps + 2
  IN  Max(rowCount \div 2, rowCount - correctionReserve)

\* Faulty variant: the rung to the right is looked at first.
SimStepRightFirst(rowRungs, col, n) ==
  IF col < n - 1 /\ HasRung(rowRungs, col) THEN col + 1
  ELSE IF col > 0 /\ HasRung(rowRungs, col - 1) THEN col - 1
  ELSE col

\* One row of simulatePermutation: left rung first, else right rung, else stay.
SimStep(rowRungs, col, n) ==
  IF col > 0 /\ HasRung(rowRungs, col - 1) THEN col - 1
  ELSE IF col < n - 1 /\ HasRung(rowRungs, col) THEN col + 1
  ELSE col

RECURSIVE SimColumn(_, _, _, _)
SimColumn(rungs, row, col, n) ==
  IF row >= Len(rungs) THEN col
  ELSE SimColumn(rungs, row + 1, SimStep(rungs[row + 1], col, n), n)

simulatePermutation(rungs, n) == [k \in 1..Max(n, 0) |-> SimColumn(rungs, 0, k - 1, n)]

\* inv = Array(n).fill(0); for (i = 0; i < n; i++) inv[perm[i]] = i
InverseOf(perm, n) ==
  [k \in 1..Max(n, 0) |->
     LET from == {i \in 0..(n - 1) : At(perm, i) = k - 1}
     IN  IF from = {} THEN 0 ELSE CHOOSE i \in from : \A m \in from : m <= i]

\* Faulty variant: composed the other way round, currentInverse[targetPerm[i]].
CorrectionInverseFirst(targetPerm, currentPerm, n) ==
  [k \in 1..Max(n, 0) |-> At(InverseOf(currentPerm, n), At(targetPerm, k - 1))]

\* Faulty variant: currentPerm is used where its inverse belongs.
CorrectionSwapped(targetPerm, currentPerm, n) ==
  [k \in 1..Max(n, 0) |-> At(targetPerm, At(currentPerm, k - 1))]

\* correction[i] = targetPerm[currentInverse[i]]
CorrectionOf(targetPerm, currentPerm, n) ==
  LET currentInverse == InverseOf(currentPerm, n)
  IN  [k \in 1..Max(n, 0) |-> At(targetPerm, At(currentInverse, k - 1))]

\* state.indexOf(v)
IndexOf(state, v) ==
  LET at == {k \in 1..Len(state) : state[k] = v}
  IN  IF at = {} THEN -1 ELSE (CHOOSE k \in at : \A m \in at : k <= m) - 1

\* while (pos > i) { swap state[pos], state[pos - 1]; push(pos - 1); pos-- }
RECURSIVE MoveLeft(_, _, _, _)
MoveLeft(state, swaps, pos, i) ==
  IF pos > i
  THEN MoveLeft(SwapAt(state, pos, pos - 1), Append(swaps, pos - 1), pos - 1, i)
  ELSE [state |-> state, swaps |-> swaps]

\* for (i = 0; i < n; i++) { pos = state.indexOf(correctionInverse[i]); ... }
RECURSIVE Reduce(_, _, _, _, _)
Reduce(state, swaps, i, n, correctionInverse) ==
  IF i >= n THEN swaps
  ELSE LET r == MoveLeft(state, swaps, IndexOf(state, At(correctionInverse, i)), i)
       IN  Reduce(r.state, r.swaps, i + 1, n, correctionInverse)

CorrectionSwapsOf(correction, n) == Reduce(Identity(n), <<>>, 0, n, InverseOf(correction, n))

\* for (const swapPos of correctionSwaps) { if (correctionRow >= rowCount) break; ... }
RECURSIVE PlaceSwaps(_, _, _, _)
PlaceSwaps(rungs, swaps, correctionRow, rowCount) ==
  IF swaps = <<>> \/ correctionRow >= rowCount
  THEN [rungs |-> rungs, correctionRow |-> correctionRow]
  ELSE PlaceSwaps(SetRung(rungs, correctionRow, Head(swaps)), Tail(swaps),
                  correctionRow + 1, rowCount)

\* Iterations of "for (row = correctionRow; row < rowCount - 1; row += 2)".
FillerCount(correctionRow, rowCount) ==
  IF correctionRow >= rowCount - 1 THEN 0 ELSE (rowCount - correctionRow) \div 2

\* The slots the filler loop can draw, one per iteration.
RECURSIVE FillerChoices(_, _, _)
FillerChoices(count, n, free) ==
  IF count <= 0 THEN {<<>>}
  ELSE {<<c>> \o rest : c \in (IF free > 0 THEN RandomIndex(n - 1) ELSE {0}),
                        rest \in FillerChoices(count - 1, n, free - 1)}

\* Faulty variant: the rung of the row below is not placed.
FillerStepSingle(rungs, row, col, n, rowCount) ==
  LET prevHasRung == col > 0 /\ HasRung(rungs[row + 1], col - 1)
      nextHasRung == col < n - 2 /\ HasRung(rungs[row + 1], col + 1)
  IN  IF ~prevHasRung /\ ~nextHasRung THEN SetRung(rungs, row, col) ELSE rungs

\* One iteration of the filler loop with slot col drawn.
FillerStep(rungs, row, col, n, rowCount) ==
  LET prevHasRung == col > 0 /\ HasRung(rungs[row + 1], col - 1)
      nextHasRung == col < n - 2 /\ HasRung(rungs[row + 1], col + 1)
      first == SetRung(rungs, row, col)
  IN  IF ~prevHasRung /\ ~nextHasRung
      THEN IF row + 1 < rowCount THEN SetRung(first, row + 1, col) ELSE first
      ELSE rungs

RECURSIVE Filler(_, _, _, _, _)
Filler(rungs, row, cols, n, rowCount) ==
  IF row >= rowCount - 1 THEN rungs
  ELSE Filler(FillerStep(rungs, row, Head(cols), n, rowCount), row + 2, Tail(cols), n, rowCount)

\* Faulty variant: the rows are allocated with n slots.
ChaosGridWide(chaos, n, rowCount) ==
  [r \in 1..rowCount |-> IF r <= Len(chaos) THEN chaos[r] ELSE [c \in 1..n |-> FALSE]]

\* rungs = Array.from({ length: rowCount }, () => Array(n - 1).fill(false)) with
\* the chaos rows drawn written into its first rows.
ChaosGrid(chaos, n, rowCount) ==
  [r \in 1..rowCount |-> IF r <= Len(chaos) THEN chaos[r] ELSE [c \in 1..(n - 1) |-> FALSE]]

\* ------------------------------------------------------------- path tracer
\* Faulty variant: the half cell is not added.
getXLeftEdge(col, cellWidth) == 2 * col * cellWidth + 2 * XOffset

\* getX and getY of traceLadderPath, in half units.
getX(col, cellWidth) == 2 * col * cellWidth + cellWidth + 2 * XOffset

\* Faulty variant: the half cell is not added to y.
getYRowTop(row, cellHeight, startY) == 2 * row * cellHeight + 2 * startY

getY(row, cellHeight, startY) == 2 * row * cellHeight + 2 * startY + cellHeight

\* Faulty variant: the rung to the right is never taken.
TraceStepLeftOnly(rowRungs, col, playerCount) ==
  IF col > 0 /\ HasRung(rowRungs, col - 1) THEN col - 1 ELSE col

\* Faulty variant: slot col is taken for the rung to the left of column col and
\* slot col + 1 for the rung to its right.
TraceStepShifted(rowRungs, col, playerCount) ==
  IF HasRung(rowRungs, col) THEN col - 1
  ELSE IF HasRung(rowRungs, col + 1) THEN col + 1
  ELSE col

\* Faulty variant: "||" for "&&" in the left test.
TraceStepLeftOr(rowRungs, col, playerCount) ==
  IF col > 0 \/ HasRung(rowRungs, col - 1) THEN col - 1
  ELSE IF col < playerCount - 1 /\ HasRung(rowRungs, col) THEN col + 1
  ELSE col

\* Faulty variant: the right test is a second "if", not an "else if".
TraceStepNoElse(rowRungs, col, playerCount) ==
  LET moved == IF col > 0 /\ HasRung(rowRungs, col - 1) THEN col - 1 ELSE col
  IN  IF moved < playerCount - 1 /\ HasRung(rowRungs, moved) THEN moved + 1 ELSE moved

\* The column after one row: left rung first, else right rung, else stay.
TraceStep(rowRungs, col, playerCount) ==
  IF col > 0 /\ HasRung(rowRungs, col - 1) THEN col - 1
  ELSE IF col < playerCount - 1 /\ HasRung(rowRungs, col) THEN col + 1
  ELSE col

\* Faulty variant: on a crossing only the far end of the rung is pushed.
RowWaypointsCrossOnly(rowRungs, row, col, playerCount, cellWidth, cellHeight, startY) ==
  <<[x |-> getX(TraceStep(rowRungs, col, playerCount), cellWidth),
     y |-> getY(row, cellHeight, startY)]>>

\* The waypoints pushed for one row while standing in column col.
RowWaypoints(rowRungs, row, col, playerCount, cellWidth, cellHeight, startY) ==
  LET y == getY(row, cellHeight, startY)
      next == TraceStep(rowRungs, col, playerCount)
  IN  <<[x |-> getX(col, cellWidth), y |-> y]>>
      \o (IF next = col THEN <<>> ELSE <<[x |-> getX(next, cellWidth), y |-> y]>>)

RECURSIVE TraceRows(_, _, _, _, _, _, _, _)
TraceRows(ladder, row, col, path, playerCount, cellWidth, cellHeight, startY) ==
  IF row >= ladder.rowCount
  THEN [path |-> Append(path, [x |-> getX(col, cellWidth),
                               y |-> 2 * (ladder.rowCount * cellHeight + startY)]),
        finalColumn |-> col]
  ELSE TraceRows(ladder, row + 1, TraceStep(ladder.rungs[row + 1], col, playerCount),
                 path \o RowWaypoints(ladder.rungs[row + 1], row, col, playerCount,
                                      cellWidth, cellHeight, startY),
                 playerCount, cellWidth, cellHeight, startY)

traceLadderPath(ladder, startCol, playerCount, cellWidth, cellHeight, startY) ==
  TraceRows(ladder, 0, startCol, <<[x |-> getX(startCol, cellWidth), y |-> 2 * startY]>>,
            playerCount, cellWidth, cellHeight, startY)

computeAllResults(ladder, playerCount) ==
  [k \in 1..Max(playerCount, 0) |-> traceLadderPath(ladder, k - 1, playerCount, 1, 1, 0).finalColumn]

\* -------------------------------------------------------------- validators
\* Faulty variant: "some" for "every".
isValidDerangementSome(results) == \E k \in 1..Len(results) : results[k] # k - 1

isValidDerangement(results) == \A k \in 1..Len(results) : results[k] # k - 1

\* Faulty variant: the slot loop starts at i = 2.
hasNoAdjacentRungsFromTwo(rungs) ==
  \A r \in 1..Len(rungs) : \A i \in 2..(Len(rungs[r]) - 1) : ~(rungs[r][i + 1] /\ rungs[r][i])

hasNoAdjacentRungs(rungs) ==
  \A r \in 1..Len(rungs) : \A i \in 1..(Len(rungs[r]) - 1) : ~(rungs[r][i + 1] /\ rungs[r][i])

\* ------------------------------------------------------------------ inputs
Columns == 0..MaxColumns

Sizes == 0..MaxN

PermSizes == 0..MaxPermN

\* The arrays handed to isValidDerangement.
Arrays == UNION {[1..len -> 0..(MaxArrayLen - 1)] : len \in 0..MaxArrayLen}

\* The grids of at most maxRows rows of the given number of slots.
GridsOf(maxRows, slots) == UNION {[1..rows -> [1..slots -> BOOLEAN]] : rows \in 0..maxRows}

\* The grids handed to hasNoAdjacentRungs.
Grids == UNION {GridsOf(MaxGridRows, slots) : slots \in 0..MaxGridSlots}

\* <<cellWidth, cellHeight, startY>>: the game board's and computeAllResults'.
Geometry == {<<100, 50, 80>>, <<1, 1, 0>>}

\* ------------------------------------------------------------------- state
VARIABLES
  op,              \* the exported function called last, "none" before any
  status,          \* of the generator called: "none", "running", "ok", or the
                   \*   exception thrown
  n,               \* argument of generateDerangement, generateRandomPermutation
  arr,             \* array returned by generateDerangement, generateRandomPermutation
  config,          \* argument of generateLadder
  targetPerm,      \* permutationToRungs: its argument
  chaosRows,       \*   rows filled at random
  currentPerm,     \*   permutation realised by the chaos rows
  correction,      \*   correction permutation
  correctionSwaps, \*   recorded transposition slots
  correctionRow,   \*   row after the last correction rung placed
  ladder,          \* LadderData returned by generateLadder, or a caller's own
  results,         \* array returned by computeAllResults
  args,            \* arguments of traceLadderPath
  trace,           \* TraceResult returned by traceLadderPath
  draws,           \* swap partners Math.random() gave to a shuffle, in loop order
  checked,         \* argument of isValidDerangement
  grid,            \* argument of hasNoAdjacentRungs
  verdict,         \* boolean returned by a validator
  pc,              \* reduction loops of permutationToRungs: the position in the code
  reduceState,     \*   state
  reduceI,         \*   i
  reducePos        \*   pos

vars == <<op, status, n, arr, config, targetPerm, chaosRows, currentPerm, correction,
          correctionSwaps, correctionRow, ladder, results, args, trace, draws,
          checked, grid, verdict, pc, reduceState, reduceI, reducePos>>

rungVars == <<chaosRows, currentPerm, correction, correctionSwaps, correctionRow>>

validatorVars == <<checked, grid, verdict>>

loopVars == <<pc, reduceState, reduceI, reducePos>>

NoLadder == [rungs |-> <<>>, rowCount |-> 0]

NoArgs == [startCol |-> 0, playerCount |-> 0, cellWidth |-> 0, cellHeight |-> 0, startY |-> 0]

NoTrace == [path |-> <<>>, finalColumn |-> 0]

Init ==
  /\ op = "none"
  /\ status = "none"
  /\ n = 0
  /\ arr = <<>>
  /\ config = [playerCount |-> 0, excludeSelf |-> FALSE]
  /\ targetPerm = <<>>
  /\ chaosRows = 0
  /\ currentPerm = <<>>
  /\ correction = <<>>
  /\ correctionSwaps = <<>>
  /\ correctionRow = 0
  /\ ladder = NoLadder
  /\ results = <<>>
  /\ args = NoArgs
  /\ trace = NoTrace
  /\ draws = <<>>
  /\ checked = <<>>
  /\ grid = <<>>
  /\ verdict = FALSE
  /\ pc = "none"
  /\ reduceState = <<>>
  /\ reduceI = 0
  /\ reducePos = 0

\* ----------------------------------------------------------------- actions
\* generateDerangement(size), called on its own.
GenerateDerangement ==
  /\ op = "none"
  /\ \E size \in Sizes : \E js \in DerangementChoices(size - 1) :
       /\ n' = size
       /\ draws' = js
       /\ arr' = generateDerangement(size, js)
  /\ op' = "generateDerangement"
  /\ status' = "ok"
  /\ UNCHANGED <<config, targetPerm, rungVars, ladder, results, args, trace, validatorVars,
                 loopVars>>

\* generateLadder({playerCount, excludeSelf: false}): the rows are pushed one by
\* one and the layout is returned.
GeneratePlain ==
  /\ op = "none"
  /\ \E playerCount \in Columns :
       \E rowCount \in {RowCountFor(playerCount, FALSE)} :
       \E rungs \in RandomRows(0, rowCount, playerCount - 1, FreeRowsFor(playerCount)) :
         /\ config' = [playerCount |-> playerCount, excludeSelf |-> FALSE]
         /\ ladder' = [rungs |-> rungs, rowCount |-> rowCount]
  /\ op' = "generateLadder"
  /\ status' = "ok"
  /\ UNCHANGED <<n, arr, targetPerm, rungVars, results, args, trace,
                 draws, validatorVars, loopVars>>

\* generateLadder({playerCount, excludeSelf: true}), first half: rowCount is
\* computed and generateDerangement(playerCount) returns the target.
GenerateTarget ==
  /\ op = "none"
  /\ \E playerCount \in Columns : \E js \in DerangementChoices(playerCount - 1) :
       /\ config' = [playerCount |-> playerCount, excludeSelf |-> TRUE]
       /\ targetPerm' = generateDerangement(playerCount, js)
       /\ ladder' = [rungs |-> <<>>, rowCount |-> RowCountFor(playerCount, TRUE)]
  /\ op' = "generateLadder"
  /\ status' = "running"
  /\ UNCHANGED <<n, arr, rungVars, results, args, trace,
                 draws, validatorVars, loopVars>>

\* Second half, permutationToRungs(targetPerm, rowCount), when Array(n - 1)
\* throws: no layout is returned.
PermutationToRungsThrows ==
  /\ op = "generateLadder"
  /\ status = "running"
  /\ Len(targetPerm) - 1 < 0
  /\ status' = "RangeError"
  /\ ladder' = NoLadder
  /\ UNCHANGED <<op, n, arr, config, targetPerm, rungVars, results, args, trace,
                 draws, validatorVars, loopVars>>

\* Second half, permutationToRungs(targetPerm, rowCount), and the return of the
\* layout.  Each local of permutationToRungs is bound in code order.
PermutationToRungs ==
  /\ op = "generateLadder"
  /\ status = "running"
  /\ Len(targetPerm) - 1 >= 0
  /\ \E size \in {Len(targetPerm)} :
     \E rowCount \in {ladder.rowCount} :
     \E chaos \in RandomRows(0, ChaosRowsFor(size, rowCount), size - 1, FreeRowsFor(size)) :
     \E rungs \in {ChaosGrid(chaos, size, rowCount)} :
     \E current \in {simulatePermutation(chaos, size)} :
     \E corr \in {CorrectionOf(targetPerm, current, size)} :
     \E swaps \in {CorrectionSwapsOf(corr, size)} :
     \E placed \in {PlaceSwaps(rungs, swaps, Len(chaos), rowCount)} :
     \E cols \in FillerChoices(FillerCount(placed.correctionRow, rowCount), size,
                               FreeRowsFor(size) - FreeUsed(chaos)) :
       /\ chaosRows' = Len(chaos)
       /\ currentPerm' = current
       /\ correction' = corr
       /\ correctionSwaps' = swaps
       /\ correctionRow' = placed.correctionRow
       /\ ladder' = [rungs |-> Filler(placed.rungs, placed.correctionRow, cols, size, rowCount),
                     rowCount |-> rowCount]
  /\ status' = "ok"
  /\ UNCHANGED <<op, n, arr, config, targetPerm, results, args, trace,
                 draws, validatorVars, loopVars>>

\* computeAllResults(ladder, playerCount) on the layout generateLadder returned.
ComputeAllResults ==
  /\ op = "generateLadder"
  /\ status = "ok"
  /\ results' = computeAllResults(ladder, config.playerCount)
  /\ op' = "computeAllResults"
  /\ UNCHANGED <<status, n, arr, config, targetPerm, rungVars, ladder, args, trace,
                 draws, validatorVars, loopVars>>

\* Faulty variant: the rows are taken off the layout as they are walked.
TraceLadderPathConsuming ==
  /\ op \in {"generateLadder", "computeAllResults"}
  /\ status = "ok"
  /\ \E startCol \in 0..(config.playerCount - 1) : \E g \in Geometry :
       /\ (op = "computeAllResults") <=> (g = <<1, 1, 0>>)
       /\ args' = [startCol |-> startCol, playerCount |-> config.playerCount,
                   cellWidth |-> g[1], cellHeight |-> g[2], startY |-> g[3]]
       /\ trace' = traceLadderPath(ladder, startCol, config.playerCount, g[1], g[2], g[3])
  /\ ladder' = [ladder EXCEPT !.rungs = <<>>]
  /\ op' = "traceLadderPath"
  /\ UNCHANGED <<status, n, arr, config, targetPerm, rungVars, results,
                 draws, validatorVars, loopVars>>

\* traceLadderPath(ladder, startCol, playerCount, cellWidth, cellHeight, startY)
\* on the layout generateLadder returned: in the geometry of the board, or
\* after computeAllResults once more in the geometry computeAllResults passes.
TraceLadderPath ==
  /\ op \in {"generateLadder", "computeAllResults"}
  /\ status = "ok"
  /\ \E startCol \in 0..(config.playerCount - 1) : \E g \in Geometry :
       /\ (op = "computeAllResults") <=> (g = <<1, 1, 0>>)
       /\ args' = [startCol |-> startCol, playerCount |-> config.playerCount,
                   cellWidth |-> g[1], cellHeight |-> g[2], startY |-> g[3]]
       /\ trace' = traceLadderPath(ladder, startCol, config.playerCount, g[1], g[2], g[3])
  /\ op' = "traceLadderPath"
  /\ UNCHANGED <<status, n, arr, config, targetPerm, rungVars, ladder, results,
                 draws, validatorVars, loopVars>>

\* traceLadderPath on a layout of the caller's own: at least one row,
\* playerCount - 1 slots in every row, any rungs.
TraceGivenLadder ==
  /\ op = "none"
  /\ \E slots \in 0..MaxGivenSlots : \E given \in GridsOf(MaxGivenRows, slots) \ {<<>>} :
     \E startCol \in 0..slots : \E g \in Geometry :
       /\ ladder' = [rungs |-> given, rowCount |-> Len(given)]
       /\ args' = [startCol |-> startCol, playerCount |-> slots + 1,
                   cellWidth |-> g[1], cellHeight |-> g[2], startY |-> g[3]]
       /\ trace' = traceLadderPath([rungs |-> given, rowCount |-> Len(given)], startCol,
                                   slots + 1, g[1], g[2], g[3])
  /\ op' = "traceLadderPath"
  /\ UNCHANGED <<status, n, arr, config, targetPerm, rungVars, results,
                 draws, validatorVars, loopVars>>

\* generateRandomPermutation(size).
GenerateRandomPermutation ==
  /\ op = "none"
  /\ \E size \in PermSizes : \E js \in PermutationChoices(size - 1) :
       /\ n' = size
       /\ draws' = js
       /\ arr' = generateRandomPermutation(size, js)
  /\ op' = "generateRandomPermutation"
  /\ status' = "ok"
  /\ UNCHANGED <<config, targetPerm, rungVars, ladder, results, args, trace, validatorVars,
                 loopVars>>

\* isValidDerangement(given).
IsValidDerangement ==
  /\ op = "none"
  /\ \E given \in Arrays :
       /\ checked' = given
       /\ verdict' = isValidDerangement(given)
  /\ op' = "isValidDerangement"
  /\ UNCHANGED <<status, n, arr, config, targetPerm, rungVars, ladder, results, args, trace,
                 draws, grid, loopVars>>

\* hasNoAdjacentRungs(given).
HasNoAdjacentRungs ==
  /\ op = "none"
  /\ \E given \in Grids :
       /\ grid' = given
       /\ verdict' = hasNoAdjacentRungs(given)
  /\ op' = "hasNoAdjacentRungs"
  /\ UNCHANGED <<status, n, arr, config, targetPerm, rungVars, ladder, results, args, trace,
                 draws, checked, loopVars>>

Next ==
  \/ GeneratePlain
  \/ GenerateTarget
  \/ PermutationToRungsThrows
  \/ PermutationToRungs
  \/ ComputeAllResults
  \/ TraceLadderPath
  \/ GenerateDerangement
  \/ TraceGivenLadder
  \/ GenerateRandomPermutation
  \/ IsValidDerangement
  \/ HasNoAdjacentRungs

Spec == Init /\ [][Next]_vars

\* ------------------------------------- reduction loops of permutationToRungs
\* The loops that turn the correction permutation into adjacent transpositions,
\* one action per loop test and per iteration of the while loop.  pc is "for" at
\* the test of the for loop, "while" at the test of the while loop and "done"
\* after the for loop.

\* A call of generateLadder with excludeSelf that has computed a correction
\* permutation, any of 2..MaxReduceN elements, and initialised correctionSwaps,
\* state and i.
ReduceInit ==
  /\ op = "generateLadder"
  /\ status = "running"
  /\ n = 0
  /\ arr = <<>>
  /\ config = [playerCount |-> 0, excludeSelf |-> FALSE]
  /\ targetPerm = <<>>
  /\ chaosRows = 0
  /\ currentPerm = <<>>
  /\ correction \in UNION {PermutationsOf(0..(size - 1)) : size \in 2..MaxReduceN}
  /\ correctionSwaps = <<>>
  /\ correctionRow = 0
  /\ ladder = NoLadder
  /\ results = <<>>
  /\ args = NoArgs
  /\ trace = NoTrace
  /\ draws = <<>>
  /\ checked = <<>>
  /\ grid = <<>>
  /\ verdict = FALSE
  /\ pc = "for"
  /\ reduceState = Identity(Len(correction))
  /\ reduceI = 0
  /\ reducePos = 0

reduceFrame == <<op, status, n, arr, config, targetPerm, chaosRows, currentPerm, correction,
                 correctionRow, ladder, results, args, trace, draws, validatorVars>>

\* i < n: pos = state.indexOf(correctionInverse[i])
ForEnter ==
  /\ pc = "for"
  /\ reduceI < Len(correction)
  /\ reducePos' = IndexOf(reduceState, At(InverseOf(correction, Len(correction)), reduceI))
  /\ pc' = "while"
  /\ UNCHANGED <<reduceFrame, correctionSwaps, reduceState, reduceI>>

\* i >= n: the for loop is left.
ForExit ==
  /\ pc = "for"
  /\ reduceI >= Len(correction)
  /\ pc' = "done"
  /\ UNCHANGED <<reduceFrame, correctionSwaps, reduceState, reduceI, reducePos>>

\* Faulty variant: pos is not decremented.
WhileStepNoDecrement ==
  /\ pc = "while"
  /\ reducePos > reduceI
  /\ reduceState' = SwapAt(reduceState, reducePos, reducePos - 1)
  /\ correctionSwaps' = Append(correctionSwaps, reducePos - 1)
  /\ UNCHANGED <<reduceFrame, pc, reduceI, reducePos>>

\* Faulty variant: pos is pushed, not pos - 1.
WhileStepPushPos ==
  /\ pc = "while"
  /\ reducePos > reduceI
  /\ reduceState' = SwapAt(reduceState, reducePos, reducePos - 1)
  /\ correctionSwaps' = Append(correctionSwaps, reducePos)
  /\ reducePos' = reducePos - 1
  /\ UNCHANGED <<reduceFrame, pc, reduceI>>

\* pos > i: swap state[pos] and state[pos - 1], push pos - 1, pos--.
WhileStep ==
  /\ pc = "while"
  /\ reducePos > reduceI
  /\ reduceState' = SwapAt(reduceState, reducePos, reducePos - 1)
  /\ correctionSwaps' = Append(correctionSwaps, reducePos - 1)
  /\ reducePos' = reducePos - 1
  /\ UNCHANGED <<reduceFrame, pc, reduceI>>

\* pos <= i: the while loop is left, i++.
WhileExit ==
  /\ pc = "while"
  /\ reducePos <= reduceI
  /\ reduceI' = reduceI + 1
  /\ pc' = "for"
  /\ UNCHANGED <<reduceFrame, correctionSwaps, reduceState, reducePos>>

ReduceNext ==
  \/ ForEnter
  \/ ForExit
  \/ WhileStep
  \/ WhileExit

ReduceSpec == ReduceInit /\ [][ReduceNext]_vars

\* The loops run in one thread with nothing to wait for: a step that can be
\* taken is taken.
FairReduceSpec == ReduceSpec /\ WF_vars(ReduceNext)

\* ------------------------------------------------------------------ claims
Returned == op = "generateLadder" /\ status = "ok"

Permutes(seq, size) ==
  /\ Len(seq) = size
  /\ \A v \in 0..(size - 1) : Cardinality({k \in 1..Len(seq) : seq[k] = v}) = 1

RungsIn(rowRungs) == {c \in 1..Len(rowRungs) : rowRungs[c]}

\* Move k of the traced path leads from waypoint k to waypoint k + 1.
Moves == 1..(Len(trace.path) - 1)

Vertical(k) ==
  trace.path[k].x = trace.path[k + 1].x /\ trace.path[k].y # trace.path[k + 1].y

Horizontal(k) ==
  trace.path[k].y = trace.path[k + 1].y /\ trace.path[k].x # trace.path[k + 1].x

\* C1: with excludeSelf and playerCount >= 2, computeAllResults of the layout
\* generateLadder returned is exactly the target derangement drawn by that call.
C1_LayoutRealisesTarget ==
  (op = "computeAllResults" /\ config.excludeSelf /\ config.playerCount >= 2)
    => \A i \in 0..(config.playerCount - 1) : At(results, i) = At(targetPerm, i)

C1_Witness ==
  /\ op = "computeAllResults" /\ config.excludeSelf /\ config.playerCount = 5
  /\ currentPerm # Identity(5)
  /\ Len(correctionSwaps) >= 3
  /\ results = targetPerm

\* C2: with excludeSelf and playerCount in 2..6, computeAllResults of the
\* returned layout maps no column to itself.
C2_NoSelfMapping ==
  (op = "computeAllResults" /\ config.excludeSelf /\ config.playerCount \in 2..6)
    => /\ \A i \in 0..(config.playerCount - 1) : At(results, i) # i
       /\ isValidDerangement(results)

C2_Witness ==
  /\ op = "computeAllResults" /\ config.excludeSelf /\ config.playerCount = 4
  /\ currentPerm # Identity(4)
  /\ \A i \in 0..3 : At(results, i) # i

\* C3: no row of a returned layout, in either mode, holds rungs in two
\* horizontally adjacent slots.
C3_NoAdjacentRungs ==
  (status = "ok" /\ op \in {"generateLadder", "computeAllResults", "traceLadderPath"})
    => /\ \A r \in 1..Len(ladder.rungs) : \A c \in 1..(Len(ladder.rungs[r]) - 1) :
            ~(ladder.rungs[r][c] /\ ladder.rungs[r][c + 1])
       /\ hasNoAdjacentRungs(ladder.rungs)

C3_Witness ==
  /\ Returned /\ config.excludeSelf
  /\ \E r \in 1..chaosRows : Cardinality(RungsIn(ladder.rungs[r])) >= 2
  /\ correctionSwaps # <<>>
  /\ \E r \in (correctionRow + 1)..ladder.rowCount : RungsIn(ladder.rungs[r]) # {}

\* C4: computeAllResults of a returned layout has playerCount entries and holds
\* each of 0 .. playerCount - 1 exactly once.
C4_ResultsArePermutation ==
  op = "computeAllResults" => Permutes(results, config.playerCount)

C4_Witness ==
  /\ op = "computeAllResults" /\ ~config.excludeSelf /\ config.playerCount = 5
  /\ results # Identity(5)
  /\ Permutes(results, 5)

\* C5: generateLadder with playerCount < 2 and generateDerangement with n < 2
\* end with an InvalidConfiguration error and return nothing.
C5_InvalidCountRejected ==
  (\/ op = "generateLadder" /\ status # "running" /\ config.playerCount < 2
   \/ op = "generateDerangement" /\ n < 2)
    => (status = "InvalidConfiguration" /\ ladder = NoLadder /\ arr = <<>>)

\* C6: for playerCount >= 2 the returned rowCount is the larger of 12 and
\* playerCount * 4 without excludeSelf, the larger of 12 and playerCount squared
\* with it, hence at least 12.
C6_RowCountPolicy ==
  (Returned /\ config.playerCount >= 2)
    => LET want == IF config.excludeSelf THEN config.playerCount * config.playerCount
                   ELSE config.playerCount * 4
       IN  /\ ladder.rowCount >= 12
           /\ ladder.rowCount >= want
           /\ ladder.rowCount \in {12, want}

C6_Witness ==
  Returned /\ config.excludeSelf /\ config.playerCount = 5 /\ ladder.rowCount = 25

\* C7: for playerCount >= 2 the returned grid has rowCount rows of
\* playerCount - 1 slots each.
C7_GridDimensions ==
  (Returned /\ config.playerCount >= 2)
    => /\ Len(ladder.rungs) = ladder.rowCount
       /\ \A r \in 1..Len(ladder.rungs) : Len(ladder.rungs[r]) = config.playerCount - 1

C7_Witness ==
  /\ Returned /\ ~config.excludeSelf /\ config.playerCount = 4
  /\ Len(ladder.rungs) = 16
  /\ \A r \in 1..16 : Len(ladder.rungs[r]) = 3
  /\ \E r \in 1..16 : RungsIn(ladder.rungs[r]) = {1, 3}

\* C8: for n in 2..8, generateDerangement(n) returns n entries holding each of
\* 0 .. n - 1 exactly once, none at its own index.
C8_DerangementValid ==
  (op = "generateDerangement" /\ n \in 2..8)
    => /\ Permutes(arr, n)
       /\ \A i \in 0..(n - 1) : At(arr, i) # i

C8_Witness ==
  /\ op = "generateDerangement" /\ n = 8
  /\ At(arr, 7) = 3 /\ At(arr, 0) = 5
  /\ \A i \in 0..7 : At(arr, i) # i

\* C9: consecutive waypoints of a traced path differ in exactly one of x and y.
C9_OneCoordinatePerMove ==
  (op = "traceLadderPath" /\ args.cellWidth > 0 /\ args.cellHeight > 0)
    => \A k \in Moves :
         (trace.path[k].x # trace.path[k + 1].x) # (trace.path[k].y # trace.path[k + 1].y)

C9_Witness ==
  /\ op = "traceLadderPath" /\ args.cellWidth = 1 /\ args.startCol = 1
  /\ trace.finalColumn # args.startCol
  /\ \E k \in Moves : Horizontal(k)

\* C10 as claimed: the moves of a traced path alternate strictly, never two
\* vertical moves in a row and never two horizontal moves in a row.
C10_StrictAlternation ==
  op = "traceLadderPath"
    => \A k \in Moves : (k + 1) \in Moves =>
         /\ ~(Vertical(k) /\ Vertical(k + 1))
         /\ ~(Horizontal(k) /\ Horizontal(k + 1))

\* C10 amended: with positive cell sizes every move is vertical-only or
\* horizontal-only, the first and the last move are vertical and no two
\* consecutive moves are both horizontal; two consecutive vertical moves are
\* allowed (a row passed without crossing).
C10_NoTwoHorizontalMoves ==
  (op = "traceLadderPath" /\ args.cellWidth > 0 /\ args.cellHeight > 0)
    => /\ \A k \in Moves : Vertical(k) \/ Horizontal(k)
       /\ Vertical(1) /\ Vertical(Len(trace.path) - 1)
       /\ \A k \in Moves : (k + 1) \in Moves => ~(Horizontal(k) /\ Horizontal(k + 1))

C10_Witness ==
  /\ op = "traceLadderPath" /\ args.cellWidth = 100
  /\ \E k \in Moves : Horizontal(k)
  /\ \E k \in Moves : (k + 1) \in Moves /\ Vertical(k) /\ Vertical(k + 1)

\* x of column col in the geometry of the traced call, in half units.
PathX(col) == 2 * (col * args.cellWidth + 50) + args.cellWidth

\* C11: the first waypoint of a traced path is (startCol * cellWidth +
\* cellWidth / 2 + 50, startY); the last one has y = rowCount * cellHeight +
\* startY and the x of the returned finalColumn.
C11_PathEndpoints ==
  op = "traceLadderPath"
    => /\ trace.path[1] = [x |-> PathX(args.startCol), y |-> 2 * args.startY]
       /\ trace.path[Len(trace.path)] =
            [x |-> PathX(trace.finalColumn),
             y |-> 2 * (ladder.rowCount * args.cellHeight + args.startY)]

C11_Witness ==
  /\ op = "traceLadderPath" /\ status = "ok" /\ config.playerCount = 4
  /\ args = [startCol |-> 2, playerCount |-> 4, cellWidth |-> 100, cellHeight |-> 50,
             startY |-> 80]
  /\ trace.finalColumn = 0
  /\ trace.path[1] = [x |-> 600, y |-> 160]
  /\ trace.path[Len(trace.path)] = [x |-> 200, y |-> 2 * (ladder.rowCount * 50 + 80)]

\* C12: on any layout with playerCount - 1 slots per row and any start column
\* in 0 .. playerCount - 1, every waypoint of the traced path lies on one of the
\* columns 0 .. playerCount - 1, and so does the returned finalColumn.
C12_ColumnInRange ==
  op = "traceLadderPath"
    => /\ trace.finalColumn \in 0..(args.playerCount - 1)
       /\ \A k \in 1..Len(trace.path) :
            \E c \in 0..(args.playerCount - 1) : trace.path[k].x = PathX(c)

C12_Witness ==
  /\ op = "traceLadderPath" /\ status = "none"
  /\ args.playerCount = 3 /\ args.startCol = 0
  /\ ladder.rowCount = 2
  /\ ladder.rungs[1] = <<TRUE, TRUE>>
  /\ trace.finalColumn = 2

\* C13: without excludeSelf fixed points are possible for playerCount = 4.  In
\* every such layout a column with no rung next to it in any row is mapped to
\* itself by computeAllResults; the witness is a returned layout with rungs
\* that has such a fixed point.
C13_UntouchedColumnIsFixed ==
  (op = "computeAllResults" /\ ~config.excludeSelf /\ config.playerCount = 4)
    => \A c \in 0..3 :
         (\A r \in 1..Len(ladder.rungs) :
            ~HasRung(ladder.rungs[r], c - 1) /\ ~HasRung(ladder.rungs[r], c))
           => At(results, c) = c

C13_Witness ==
  /\ op = "computeAllResults" /\ ~config.excludeSelf /\ config.playerCount = 4
  /\ \E r \in 1..Len(ladder.rungs) : RungsIn(ladder.rungs[r]) # {}
  /\ \E c \in 0..3 : At(results, c) = c
  /\ \E c \in 0..3 : At(results, c) # c

\* The partner sequences with which generateDerangement(size) returns perm.
DerangementDrawsFor(size, perm) ==
  {js \in DerangementChoices(size - 1) : generateDerangement(size, js) = perm}

DerangementsOf(size) ==
  {perm \in PermutationsOf(0..(size - 1)) : \A k \in 1..size : perm[k] # k - 1}

RECURSIVE OrbitOf(_, _, _)
OrbitOf(perm, v, seen) ==
  IF v \in seen THEN seen ELSE OrbitOf(perm, At(perm, v), seen \cup {v})

\* perm is one cycle through all its indices.
SingleCycle(perm) == Len(perm) >= 1 /\ OrbitOf(perm, 0, {}) = 0..(Len(perm) - 1)

\* C14 as claimed: for n in 2..6 every derangement of 0 .. n - 1 is returned by
\* generateDerangement(n) for the same number of partner sequences (as many as
\* the array just returned, hence at least one).
C14_UniformOverDerangements ==
  (op = "generateDerangement" /\ n \in 2..6)
    => \A d \in DerangementsOf(n) :
         Cardinality(DerangementDrawsFor(n, d)) = Cardinality(DerangementDrawsFor(n, arr))

\* C14 amended: for n in 2..6 generateDerangement(n) returns a single cycle
\* through all n indices, the partner sequence drawn is the only one that gives
\* the returned array, and the arrays it can return are exactly the single
\* cycles of 0 .. n - 1.
C14_UniformOverCycles ==
  (op = "generateDerangement" /\ n \in 2..6)
    => /\ SingleCycle(arr)
       /\ DerangementDrawsFor(n, arr) = {draws}
       /\ {generateDerangement(n, js) : js \in DerangementChoices(n - 1)}
            = {perm \in PermutationsOf(0..(n - 1)) : SingleCycle(perm)}

C14_Witness ==
  /\ op = "generateDerangement" /\ n = 4
  /\ arr = <<1, 2, 3, 0>>
  /\ <<1, 0, 3, 2>> \in DerangementsOf(4)
  /\ DerangementDrawsFor(4, <<1, 0, 3, 2>>) = {}

\* C15: for n >= 1 generateRandomPermutation(n) returns a permutation of
\* 0 .. n - 1, the partner drawn for index i lies in 0 .. i, the partner
\* sequence drawn is the only one that gives the returned array, and the arrays
\* it can return are all the permutations of 0 .. n - 1.
C15_UniformPermutation ==
  (op = "generateRandomPermutation" /\ n >= 1)
    => /\ Permutes(arr, n)
       /\ Len(draws) = n - 1
       /\ \A k \in 1..Len(draws) : draws[k] \in 0..(n - k)
       /\ {js \in PermutationChoices(n - 1) : generateRandomPermutation(n, js) = arr} = {draws}
       /\ {generateRandomPermutation(n, js) : js \in PermutationChoices(n - 1)}
            = PermutationsOf(0..(n - 1))

C15_Witness ==
  /\ op = "generateRandomPermutation" /\ n = 4
  /\ draws = <<3, 2, 0>>
  /\ arr = <<1, 0, 2, 3>>

\* The rule of the claim for one row: left if slot col - 1 holds a rung, else
\* right if slot col holds one, else stay.
LeftFirst(rowRungs, col) ==
  IF HasRung(rowRungs, col - 1) THEN col - 1
  ELSE IF HasRung(rowRungs, col) THEN col + 1
  ELSE col

\* From waypoint k on, the traced path is the one of a walker that stands in
\* column col above row r and moves by LeftFirst in every row.
RECURSIVE FollowsLeftFirst(_, _, _)
FollowsLeftFirst(k, r, col) ==
  IF r >= ladder.rowCount
  THEN /\ k = Len(trace.path)
       /\ trace.path[k].x = PathX(col)
       /\ trace.finalColumn = col
  ELSE /\ k < Len(trace.path)
       /\ trace.path[k] = [x |-> PathX(col),
                           y |-> 2 * (r * args.cellHeight + args.startY) + args.cellHeight]
       /\ \E next \in {LeftFirst(ladder.rungs[r + 1], col)} :
            /\ next \in {col - 1, col, col + 1}
            /\ IF next = col THEN FollowsLeftFirst(k + 1, r + 1, col)
               ELSE /\ k + 1 < Len(trace.path)
                    /\ trace.path[k + 1] = [trace.path[k] EXCEPT !.x = PathX(next)]
                    /\ FollowsLeftFirst(k + 2, r + 1, next)

\* C16: with playerCount >= 2, in every row the traced column moves one to the
\* left if the slot to its left (col - 1) holds a rung, else one to the right if
\* slot col holds a rung, else stays; on a layout generateLadder returned the
\* two slots never both hold a rung, whatever the column.
C16_LeftFirstStep ==
  (op = "traceLadderPath" /\ args.playerCount >= 2)
    => /\ FollowsLeftFirst(2, 0, args.startCol)
       /\ (status = "ok")
            => \A r \in 1..ladder.rowCount : \A c \in 0..(args.playerCount - 1) :
                 ~(HasRung(ladder.rungs[r], c - 1) /\ HasRung(ladder.rungs[r], c))

C16_Witness ==
  /\ op = "traceLadderPath" /\ status = "ok" /\ args.cellWidth = 100
  /\ \E k \in Moves : Horizontal(k) /\ trace.path[k + 1].x < trace.path[k].x
  /\ \E k \in Moves : Horizontal(k) /\ trace.path[k + 1].x > trace.path[k].x
  /\ \E k \in Moves : k > 1 /\ (k + 1) \in Moves /\ Vertical(k) /\ Vertical(k + 1)
  /\ FollowsLeftFirst(2, 0, args.startCol)

\* C17: isValidDerangement returns true exactly when no index of the array
\* holds its own value, whether or not the array is a permutation.
C17_NoFixedPointOnly ==
  op = "isValidDerangement"
    => (verdict <=> {k \in 1..Len(checked) : checked[k] = k - 1} = {})

C17_Witness ==
  /\ op = "isValidDerangement"
  /\ checked = <<1, 0, 0>>
  /\ ~Permutes(checked, 3)
  /\ verdict

\* C18: hasNoAdjacentRungs returns true exactly when no row holds rungs in two
\* slots next to each other.
C18_NoAdjacentPairOnly ==
  op = "hasNoAdjacentRungs"
    => (verdict <=> ~(\E r \in 1..Len(grid) : \E a, b \in 1..Len(grid[r]) :
                        b = a + 1 /\ grid[r][a] /\ grid[r][b]))

C18_Witness ==
  /\ op = "hasNoAdjacentRungs"
  /\ grid = << <<TRUE, FALSE, TRUE>>, <<TRUE, FALSE, FALSE>> >>
  /\ verdict

\* C19: the reduction loops of permutationToRungs end for every correction
\* permutation: the for loop never runs past n, the while loop pushes at most
\* n (n - 1) / 2 transpositions in all, the transpositions pushed when the loops
\* are left are those of the reduction, and the loops are always left.
C19_ReductionTerminates ==
  /\ [](/\ reduceI <= Len(correction)
        /\ 2 * Len(correctionSwaps) <= Len(correction) * (Len(correction) - 1)
        /\ (pc = "done") => correctionSwaps = CorrectionSwapsOf(correction, Len(correction)))
  /\ <>(pc = "done")

C19_Witness ==
  /\ pc = "done"
  /\ correction = <<4, 3, 2, 1, 0>>
  /\ Len(correctionSwaps) = 10

C21_CorrectionAfterChaos ==
  (Returned /\ config.excludeSelf /\ config.playerCount >= 1)
    => /\ Permutes(correction, config.playerCount)
       /\ currentPerm = computeAllResults([rungs |-> SubSeq(ladder.rungs, 1, chaosRows),
                                           rowCount |-> chaosRows], config.playerCount)
       /\ \A i \in 0..(config.playerCount - 1) :
            At(correction, At(currentPerm, i)) = At(targetPerm, i)

C21_Witness ==
  /\ Returned /\ config.excludeSelf /\ config.playerCount = 5
  /\ currentPerm # Identity(5)
  /\ correction # targetPerm
  /\ correction # Identity(5)
  /\ \A i \in 0..4 : At(correction, At(currentPerm, i)) = At(targetPerm, i)

\* The grid with one row per recorded slot, in recording order, each row with
\* that slot's rung only.
SwapGrid(swaps, size) ==
  [r \in 1..Len(swaps) |-> [c \in 1..(size - 1) |-> c = swaps[r] + 1]]

\* C22: for every correction permutation of 2..6 elements the position looked
\* up in the reduction is never less than i, and once the loops are left the
\* grid of the recorded slots sends a path from column i to correction[i].
C22_SwapsRealiseCorrection ==
  (Len(correction) \in 2..6)
    => /\ (pc = "while") => reducePos >= reduceI
       /\ (pc = "done")
            => computeAllResults(
                 [rungs |-> SwapGrid(correctionSwaps, Len(correction)),
                  rowCount |-> Len(correctionSwaps)], Len(correction)) = correction

C22_Witness ==
  /\ pc = "done"
  /\ correction = <<2, 0, 3, 1>>
  /\ correctionSwaps # <<>>
  /\ \A i \in 0..3 :
       traceLadderPath([rungs |-> SwapGrid(correctionSwaps, 4),
                        rowCount |-> Len(correctionSwaps)], i, 4, 1, 1, 0).finalColumn
         = At(correction, i)

\* C23: with excludeSelf and playerCount in 2..8 at most playerCount *
\* (playerCount - 1) / 2 swaps are recorded and never more than rowCount -
\* chaosRows (which leaves room for that many, whatever the playerCount in
\* 2..8); every recorded swap is the only rung of its row, in successive rows
\* from row chaosRows on.
C23_EverySwapPlaced ==
  (Returned /\ config.excludeSelf /\ config.playerCount \in 2..8)
    => /\ 2 * Len(correctionSwaps) <= config.playerCount * (config.playerCount - 1)
       /\ Len(correctionSwaps) <= ladder.rowCount - chaosRows
       /\ correctionRow = chaosRows + Len(correctionSwaps)
       /\ \A j \in 1..Len(correctionSwaps) :
            RungsIn(ladder.rungs[chaosRows + j]) = {correctionSwaps[j] + 1}
       /\ \A size \in 2..8 :
            2 * (RowCountFor(size, TRUE) - ChaosRowsFor(size, RowCountFor(size, TRUE)))
              >= size * (size - 1)

C23_Witness ==
  /\ Returned /\ config.excludeSelf /\ config.playerCount = 5
  /\ Len(correctionSwaps) = 10
  /\ correctionRow = chaosRows + 10
  /\ \A j \in 1..10 : RungsIn(ladder.rungs[chaosRows + j]) = {correctionSwaps[j] + 1}

\* The layout with the rungs of the rows from row on taken out.
ClearedFrom(layout, row) ==
  [layout EXCEPT !.rungs = [r \in 1..Len(@) |->
     IF r > row THEN [c \in 1..Len(@[r]) |-> FALSE] ELSE @[r]]]

\* C24: with excludeSelf and playerCount >= 2 the rows from correctionRow on
\* come in pairs that hold the same single rung, or none, a last odd row holds
\* none, and computeAllResults is what it is without the rungs of those rows.
C24_FillerInPairs ==
  (op = "computeAllResults" /\ config.excludeSelf /\ config.playerCount >= 2)
    => /\ \A r \in (correctionRow + 1)..ladder.rowCount :
            /\ Cardinality(RungsIn(ladder.rungs[r])) <= 1
            /\ IF (r - correctionRow) % 2 = 1
               THEN IF r < ladder.rowCount
                    THEN RungsIn(ladder.rungs[r]) = RungsIn(ladder.rungs[r + 1])
                    ELSE RungsIn(ladder.rungs[r]) = {}
               ELSE RungsIn(ladder.rungs[r]) = RungsIn(ladder.rungs[r - 1])
       /\ results = computeAllResults(ClearedFrom(ladder, correctionRow), config.playerCount)

C24_Witness ==
  /\ op = "computeAllResults" /\ config.excludeSelf /\ config.playerCount = 4
  /\ correctionRow + 2 <= ladder.rowCount
  /\ RungsIn(ladder.rungs[correctionRow + 1]) = {2}
  /\ RungsIn(ladder.rungs[correctionRow + 2]) = {2}
  /\ results = computeAllResults(ClearedFrom(ladder, correctionRow), 4)

\* C25: simulatePermutation and computeAllResults agree on every grid of
\* playerCount - 1 slots per row: on the layouts generateLadder returned, and
\* column by column with traceLadderPath on layouts of the caller's own.
C25_SimulationMatchesTracer ==
  /\ (op = "computeAllResults")
       => results = simulatePermutation(ladder.rungs, config.playerCount)
  /\ (op = "traceLadderPath" /\ status = "none")
       => trace.finalColumn
            = At(simulatePermutation(ladder.rungs, args.playerCount), args.startCol)

C25_Witness ==
  /\ op = "traceLadderPath" /\ status = "none"
  /\ args.playerCount = 3 /\ args.startCol = 1
  /\ ladder.rungs = << <<TRUE, TRUE>>, <<FALSE, TRUE>> >>
  /\ trace.finalColumn = 0
  /\ simulatePermutation(ladder.rungs, 3) = <<2, 0, 2>>

\* C26: for n >= 2 the array generateDerangement(n) returns is one cycle of
\* length n: following i -> arr[i] from any element visits all n elements.
C26_SingleCycle ==
  (op = "generateDerangement" /\ n >= 2)
    => \A start \in 0..(n - 1) : OrbitOf(arr, start, {}) = 0..(n - 1)

C26_Witness ==
  /\ op = "generateDerangement" /\ n = 8
  /\ arr = <<1, 2, 3, 4, 5, 6, 7, 0>>
  /\ \A start \in 0..7 : OrbitOf(arr, start, {}) = 0..7

====
